---------------------------- MODULE Spec2Model ----------------------------
(***************************************************************************)
(* Model of profit_bot.py: a Telegram bot that keeps a product base, an    *)
(* exchange rate and, per user, a report session (report_active, entries), *)
(* and that writes a report snapshot when a report is ended.               *)
(*                                                                         *)
(* A text is a sequence of one-character strings.  A number (Python float  *)
(* or int) is an exact rational [n |-> numerator, d |-> denominator > 0]   *)
(* in lowest terms, or nan; float rounding is not modelled.                *)
(***************************************************************************)
EXTENDS Integers, Sequences, FiniteSets, TLC

(***************************************************************************)
(* Characters                                                              *)
(***************************************************************************)
Digits == {"0", "1", "2", "3", "4", "5", "6", "7", "8", "9"}

DigitVal(c) ==
    CASE c = "0" -> 0 [] c = "1" -> 1 [] c = "2" -> 2 [] c = "3" -> 3
      [] c = "4" -> 4 [] c = "5" -> 5 [] c = "6" -> 6 [] c = "7" -> 7
      [] c = "8" -> 8 [] c = "9" -> 9

\* str.strip() and the regular expression's \s: the whitespace characters.
Spaces == {" ", "\n", "\t"}

\* The code point of a character, which orders Python strings.
Ord(c) ==
    CASE c = "\t" -> 9 [] c = "\n" -> 10 [] c = " " -> 32 [] c = "#" -> 35
      [] c = "-" -> 45 [] c = "." -> 46 [] c \in Digits -> 48 + DigitVal(c)
      [] c = ":" -> 58 [] c = "a" -> 97 [] c = "b" -> 98 [] c = "c" -> 99
      [] c = "x" -> 120

\* s < t for Python strings: lexicographic by code point, a proper prefix first.
RECURSIVE StrLess(_, _)
StrLess(s, t) ==
    IF t = <<>> THEN FALSE
    ELSE IF s = <<>> THEN TRUE
    ELSE IF Head(s) = Head(t) THEN StrLess(Tail(s), Tail(t))
    ELSE Ord(Head(s)) < Ord(Head(t))

(***************************************************************************)
(* Numbers                                                                 *)
(***************************************************************************)
Abs(i) == IF i < 0 THEN -i ELSE i

RECURSIVE Gcd(_, _)
Gcd(a, b) == IF b = 0 THEN a ELSE Gcd(b, a % b)

\* float('nan'): the float that is no number.  It has the denominator 0, so
\* that whatever is computed from it is nan again.
NaN == [n |-> 0, d |-> 0]

\* The rational n/d, d > 0, in lowest terms (nan for d = 0).
Rat(n, d) ==
    IF d = 0 THEN NaN
    ELSE LET g == Gcd(Abs(n), d) IN [n |-> n \div g, d |-> d \div g]

RatInt(i) == [n |-> i, d |-> 1]
RatAdd(x, y) == Rat(x.n * y.d + y.n * x.d, x.d * y.d)
RatSub(x, y) == Rat(x.n * y.d - y.n * x.d, x.d * y.d)
RatMul(x, y) == Rat(x.n * y.n, x.d * y.d)
\* x / y for y > 0.
RatDiv(x, y) == Rat(x.n * y.d, x.d * y.n)
RatPos(x) == x.n > 0

RECURSIVE Pow10(_)
Pow10(k) == IF k = 0 THEN 1 ELSE 10 * Pow10(k - 1)

\* The natural number a string of digits denotes (int() of a \d+ group).
RECURSIVE DigitsToNat(_)
DigitsToNat(s) ==
    IF s = <<>> THEN 0
    ELSE 10 * DigitsToNat(SubSeq(s, 1, Len(s) - 1)) + DigitVal(s[Len(s)])

(***************************************************************************)
(* String operations                                                       *)
(***************************************************************************)
\* str.strip(): s without its leading and trailing whitespace.
Strip(s) ==
    LET keep == {i \in 1..Len(s) : s[i] \notin Spaces}
    IN  IF keep = {} THEN <<>>
        ELSE LET lo == CHOOSE i \in keep : \A j \in keep : i <= j
                 hi == CHOOSE i \in keep : \A j \in keep : j <= i
             IN  SubSeq(s, lo, hi)

\* c in s
Contains(s, c) == \E i \in 1..Len(s) : s[i] = c

\* s.endswith(c)
EndsWith(s, c) == Len(s) > 0 /\ s[Len(s)] = c

\* s.split(c): the pieces of s between the occurrences of c.
RECURSIVE Split(_, _)
Split(s, c) ==
    IF ~Contains(s, c) THEN <<s>>
    ELSE LET i == CHOOSE k \in 1..Len(s) :
                      s[k] = c /\ \A j \in 1..(k - 1) : s[j] # c
         IN  <<SubSeq(s, 1, i - 1)>> \o Split(SubSeq(s, i + 1, Len(s)), c)

\* float(s): ok is FALSE where Python raises ValueError.  Python strips the
\* string, then (for the inputs of this model) wants an optional sign and
\* either digits with at most one '.', at least one digit, or the word nan.
PyFloat(s0) ==
    LET s      == Strip(s0)
        signed == Len(s) > 0 /\ s[1] \in {"-", "+"}
        body   == IF signed THEN SubSeq(s, 2, Len(s)) ELSE s
        dots   == {i \in 1..Len(body) : body[i] = "."}
        wellformed ==
            /\ \A i \in 1..Len(body) : body[i] \in Digits \cup {"."}
            /\ Cardinality(dots) <= 1
            /\ \E i \in 1..Len(body) : body[i] \in Digits
        dot    == IF dots = {} THEN Len(body) + 1 ELSE CHOOSE i \in dots : TRUE
        whole  == SubSeq(body, 1, dot - 1)
        frac   == SubSeq(body, dot + 1, Len(body))
        mag    == DigitsToNat(whole \o frac)
        sgn    == IF signed /\ s[1] = "-" THEN -1 ELSE 1
    IN  IF body = <<"n", "a", "n">>
        THEN [ok |-> TRUE, val |-> NaN]
        ELSE IF wellformed
        THEN [ok |-> TRUE, val |-> Rat(sgn * mag, Pow10(Len(frac)))]
        ELSE [ok |-> FALSE, val |-> RatInt(0)]


(***************************************************************************)
(* parse_entry: the sale line  revenue [quantity] model#                   *)
(***************************************************************************)
\* The end of the longest run of characters of `set` that starts at index
\* `from` of s (from - 1 when s[from] is not in the set).
RunEnd(s, from, set) ==
    LET ends == {e \in (from - 1)..Len(s) : \A i \in from..e : s[i] \in set}
    IN  CHOOSE e \in ends : \A f \in ends : f <= e

\* re.match(r'^([\d.]+)\s+(?:(\d+)\s+)?(.+#)$', s): the groups of the first
\* match in the order the backtracking matcher tries them (each + greedy, the
\* optional quantity group tried before its omission).  Group 3 is
\* s[l+1 .. Len(s)]: at least one character other than a newline, then '#'.
ReMatch(s) ==
    LET n  == Len(s)
        i  == RunEnd(s, 1, Digits \cup {"."})
        j  == RunEnd(s, i + 1, Spaces)
        k  == RunEnd(s, j + 1, Digits)
        lm == RunEnd(s, k + 1, Spaces)
        Group3(l) ==
            /\ n - l >= 2
            /\ s[n] = "#"
            /\ \A x \in (l + 1)..n : s[x] # "\n"
        withQty    == IF i >= 1 /\ j > i /\ k > j /\ lm > k
                      THEN {l \in (k + 1)..lm : Group3(l)} ELSE {}
        withoutQty == IF i >= 1 /\ j > i
                      THEN {l \in (i + 1)..j : Group3(l)} ELSE {}
        Last(ls)   == CHOOSE l \in ls : \A m \in ls : m <= l
    IN  IF withQty # {}
        THEN [matched |-> TRUE, g1 |-> SubSeq(s, 1, i),
              g2 |-> SubSeq(s, j + 1, k),
              g3 |-> SubSeq(s, Last(withQty) + 1, n)]
        ELSE IF withoutQty # {}
        THEN [matched |-> TRUE, g1 |-> SubSeq(s, 1, i), g2 |-> <<>>,
              g3 |-> SubSeq(s, Last(withoutQty) + 1, n)]
        ELSE [matched |-> FALSE, g1 |-> <<>>, g2 |-> <<>>, g3 |-> <<>>]

\* The value parse_entry returns for no entry (Python's None).
NoEntry ==
    [ok |-> FALSE, revenue |-> RatInt(0), quantity |-> 0, model |-> <<>>]

\* A parser that takes every line for a sale of one item.
parse_entry_of_one(text0) ==
    LET text == Strip(text0)
        m    == ReMatch(text)
    IN  IF text = <<>> THEN NoEntry
        ELSE IF ~m.matched THEN NoEntry
        ELSE IF ~PyFloat(m.g1).ok THEN NoEntry
        ELSE [ok       |-> TRUE,
              revenue  |-> PyFloat(m.g1).val,
              quantity |-> 1,
              model    |-> Strip(m.g3)]

parse_entry(text0) ==
    LET text == Strip(text0)
        m    == ReMatch(text)
    IN  IF text = <<>> THEN NoEntry
        ELSE IF ~m.matched THEN NoEntry
        ELSE IF ~PyFloat(m.g1).ok THEN NoEntry
        ELSE [ok       |-> TRUE,
              revenue  |-> PyFloat(m.g1).val,
              quantity |-> IF m.g2 # <<>> THEN DigitsToNat(m.g2) ELSE 1,
              model    |-> Strip(m.g3)]


(***************************************************************************)
(* Inputs and bounds                                                       *)
(***************************************************************************)
\* The users (chats) that talk to the bot.
Users == {"u1", "u2"}

\* The longest entry list a session collects in the model.
MaxEntries == 2

ModelA == <<"a", "#">>
ModelB == <<"b", "#">>
ModelAB == <<"a", " ", "b", "#">>

\* The free-text messages users send.
Texts ==
    { <<"5", " ", "2", " ", "a", "#">>,     \* sale line with a quantity
      <<"3", " ", "b", "#">>,               \* sale line without a quantity
      <<"5", " ", "c", "#">>,               \* sale line, model never in the base
      <<"a", "#", ":", "4">>,               \* product line  model#:price
      <<"2", " ", ":", "a", "#">>,          \* has ':' and ends with '#'
      <<"x">> }                             \* neither

\* The argument lists of /rate.
RateArgs == { <<>>, << <<"2">> >>, << <<"x">> >> }

\* Sale lines as they are typed: a revenue token, a quantity token (<<>> for
\* a line without one), a model, and the whitespace between the tokens.
Lines ==
    { [revenue |-> <<"5">>, qty |-> <<>>, model |-> ModelA, sep |-> <<" ">>],
      [revenue |-> <<"5">>, qty |-> <<"0">>, model |-> ModelA, sep |-> <<" ">>],
      [revenue |-> <<"1", ".", "5">>, qty |-> <<"0", "3">>, model |-> ModelB,
       sep |-> <<" ", " ">>],
      [revenue |-> <<"5">>, qty |-> <<"1", "2">>, model |-> ModelB, sep |-> <<"\t">>],
      [revenue |-> <<"5">>, qty |-> <<"1">>, model |-> ModelA, sep |-> <<" ">>],
      [revenue |-> <<"5">>, qty |-> <<"2">>, model |-> ModelAB, sep |-> <<" ">>],
      [revenue |-> <<"5">>, qty |-> <<>>, model |-> ModelAB, sep |-> <<" ">>] }

\* The text of a line.
LineOf(l) ==
    l.revenue \o l.sep \o (IF l.qty = <<>> THEN <<>> ELSE l.qty \o l.sep) \o l.model

LineTexts == {LineOf(l) : l \in Lines}

\* Texts with nothing but whitespace in them.
BlankTexts == { <<>>, <<" ">>, <<" ", "\t">> }

\* Every text a handler is given in some specification.
AllTexts == Texts \cup LineTexts \cup BlankTexts

\* More argument lists of /rate: zero, a negative number, a number followed
\* by a second argument, and the word nan.
MoreRateArgs ==
    { << <<"0">> >>, << <<"-", "1">> >>, << <<"2">>, <<"x">> >>,
      << <<"n", "a", "n">> >> }

\* The values datetime.now().isoformat() takes (no property reads the clock).
Timestamps == {"t1"}

\* base.json as a dict: a function from model to unit cost.
EmptyBase == [m \in {} |-> RatInt(0)]
FullBase  == [m \in {ModelA, ModelB} |-> IF m = ModelA THEN Rat(3, 2) ELSE RatInt(3)]
OnlyB     == [m \in {ModelB} |-> RatInt(3)]

\* The contents base.json can have when the bot starts, or be given by
\* whoever edits the file.
Bases == {EmptyBase, FullBase, OnlyB}

\* The rate used when exchange_rate.json holds no "rate".
DefaultRate == 88

(***************************************************************************)
(* State                                                                   *)
(***************************************************************************)
VARIABLES
    base,         \* BASE_FILE: model -> unit cost in dollars
    rate_file,    \* EXCHANGE_RATE_FILE: <<>> (no "rate" key) or <<rate>>
    report_file,  \* REPORT_FILE: <<>> (no file) or <<report_data>>
    user_data,    \* context.user_data of each user
    reply         \* what the last handler sent with reply_text

vars == <<base, rate_file, report_file, user_data, reply>>

\* A user_data dict without the keys 'report_active' and 'entries'.
NoUserData == [present |-> FALSE, report_active |-> FALSE, entries |-> <<>>]

\* context.user_data.get('report_active')
ReportActive(u) == user_data[u].present /\ user_data[u].report_active

\* context.user_data.get('entries', [])
Entries(u) == IF user_data[u].present THEN user_data[u].entries ELSE <<>>

\* rate_data.get("rate", 88.0)
GetRate(file) == IF file = <<>> THEN RatInt(DefaultRate) ELSE file[1]

ZeroTotals ==
    [quantity |-> 0, revenue |-> RatInt(0), cost_som |-> RatInt(0),
     profit |-> RatInt(0), margin |-> RatInt(0)]

\* A reply without tables.
NoTables == [parts |-> 0, rows1 |-> <<>>, rows2 |-> <<>>, total |-> ZeroTotals]

\* One handler's reply_text calls: the kind of message, the model, the list
\* of models and the numbers it shows, and the two tables of a report.
Reply(kind, model, models, nums, tables) ==
    [kind |-> kind, model |-> model, models |-> models,
     nums |-> nums, tables |-> tables]

Simple(kind) == Reply(kind, <<>>, <<>>, <<>>, NoTables)

Init ==
    /\ base \in Bases
    /\ rate_file \in {<<>>, <<RatInt(DefaultRate)>>}
    /\ report_file = <<>>
    /\ user_data = [u \in Users |-> NoUserData]
    /\ reply = Simple("none")

(***************************************************************************)
(* /start, /base, /rate, /start_report                                     *)
(***************************************************************************)
\* A handler that only answers: reply_text and nothing written.
OnlyReply(r) ==
    /\ reply' = r
    /\ UNCHANGED <<base, rate_file, report_file, user_data>>

start(u) ==
    /\ reply' = Simple("help")
    /\ UNCHANGED <<base, rate_file, report_file, user_data>>

\* sorted(): the elements of a set of strings in increasing order.
RECURSIVE Sorted(_)
Sorted(set) ==
    IF set = {} THEN <<>>
    ELSE LET least == CHOOSE m \in set : \A o \in set \ {m} : StrLess(m, o)
         IN  <<least>> \o Sorted(set \ {least})

cmd_base(u) ==
    IF DOMAIN base = {} THEN OnlyReply(Simple("base_empty"))
    ELSE LET models == Sorted(DOMAIN base)
         IN  OnlyReply(Reply("base_list", <<>>, models,
                             [i \in 1..Len(models) |-> base[models[i]]], NoTables))

\* A /rate that saves the rate document to BASE_FILE.
cmd_rate_into_base(u, args) ==
    LET current_rate == GetRate(rate_file)
        new_rate     == PyFloat(args[1])
    IN  IF args # <<>>
        THEN IF new_rate.ok
             THEN /\ base' = [m \in {<<"r", "a", "t", "e">>} |-> new_rate.val]
                  /\ reply' = Reply("rate_updated", <<>>, <<>>, <<new_rate.val>>, NoTables)
                  /\ UNCHANGED <<rate_file, report_file, user_data>>
             ELSE OnlyReply(Simple("rate_error"))
        ELSE OnlyReply(Reply("rate_shown", <<>>, <<>>, <<current_rate>>, NoTables))

cmd_rate(u, args) ==
    LET current_rate == GetRate(rate_file)
        new_rate     == PyFloat(args[1])
    IN  IF args # <<>>
        THEN IF new_rate.ok
             THEN /\ rate_file' = <<new_rate.val>>
                  /\ reply' = Reply("rate_updated", <<>>, <<>>, <<new_rate.val>>, NoTables)
                  /\ UNCHANGED <<base, report_file, user_data>>
             ELSE OnlyReply(Simple("rate_error"))
        ELSE OnlyReply(Reply("rate_shown", <<>>, <<>>, <<current_rate>>, NoTables))

\* A start_report that keeps what the session had collected.
cmd_start_report_keeping(u) ==
    /\ user_data' = [user_data EXCEPT
                       ![u] = [present |-> TRUE, report_active |-> TRUE,
                               entries |-> user_data[u].entries]]
    /\ reply' = Simple("report_started")
    /\ UNCHANGED <<base, rate_file, report_file>>

cmd_start_report(u) ==
    /\ user_data' = [user_data EXCEPT
                       ![u] = [present |-> TRUE, report_active |-> TRUE, entries |-> <<>>]]
    /\ reply' = Simple("report_started")
    /\ UNCHANGED <<base, rate_file, report_file>>

(***************************************************************************)
(* The arithmetic of a sale line and of a report                           *)
(***************************************************************************)
\* (profit / revenue * 100) if revenue > 0 else 0
Margin(profit, revenue) ==
    IF RatPos(revenue) THEN RatMul(RatDiv(profit, revenue), RatInt(100))
    ELSE RatInt(0)

\* A row whose cost is that of one item, whatever the quantity.
Detail_unit_cost(e, b, rate) ==
    LET cost_usd == b[e.model]
        cost_som == RatMul(cost_usd, rate)
        profit   == RatSub(e.revenue, cost_som)
    IN  [model |-> e.model, quantity |-> e.quantity, revenue |-> e.revenue,
         cost_usd |-> cost_usd, cost_som |-> cost_som, profit |-> profit,
         margin |-> Margin(profit, e.revenue)]

\* One row of `details`: the cost, profit and margin of one entry.
Detail(e, b, rate) ==
    LET cost_usd == b[e.model]
        cost_som == RatMul(RatMul(cost_usd, rate), RatInt(e.quantity))
        profit   == RatSub(e.revenue, cost_som)
    IN  [model |-> e.model, quantity |-> e.quantity, revenue |-> e.revenue,
         cost_usd |-> cost_usd, cost_som |-> cost_som, profit |-> profit,
         margin |-> Margin(profit, e.revenue)]

Details(entries, b, rate) ==
    [i \in 1..Len(entries) |-> Detail(entries[i], b, rate)]

\* The running sum of the loop over the entries: the numbers added in order.
RECURSIVE SumRat(_)
SumRat(xs) ==
    IF xs = <<>> THEN RatInt(0)
    ELSE RatAdd(SumRat(SubSeq(xs, 1, Len(xs) - 1)), xs[Len(xs)])

RECURSIVE SumNat(_)
SumNat(ns) == IF ns = <<>> THEN 0 ELSE Head(ns) + SumNat(Tail(ns))

\* The rows of `details` for model m, in order.
RECURSIVE RowsOf(_, _)
RowsOf(details, m) ==
    IF details = <<>> THEN <<>>
    ELSE (IF Head(details).model = m THEN <<Head(details)>> ELSE <<>>)
         \o RowsOf(Tail(details), m)

\* A summary that keeps, for each model, the numbers of its last row only.
Summary_last_row(details) ==
    [m \in {details[i].model : i \in 1..Len(details)} |->
        LET rows == RowsOf(details, m)
            last == rows[Len(rows)]
        IN  [quantity |-> last.quantity,
             revenue  |-> last.revenue,
             cost_usd |-> RatMul(last.cost_usd, RatInt(last.quantity))]]

\* model_summary: for each model of the entries its summed quantity, revenue
\* and dollar cost.
Summary(details) ==
    [m \in {details[i].model : i \in 1..Len(details)} |->
        LET rows == RowsOf(details, m)
        IN  [quantity |-> SumNat([i \in 1..Len(rows) |-> rows[i].quantity]),
             revenue  |-> SumRat([i \in 1..Len(rows) |-> rows[i].revenue]),
             cost_usd |-> SumRat([i \in 1..Len(rows) |->
                                    RatMul(rows[i].cost_usd, RatInt(rows[i].quantity))])]]

\* totals of report_data.
Totals(details) ==
    LET total_revenue == SumRat([i \in 1..Len(details) |-> details[i].revenue])
        total_profit  == SumRat([i \in 1..Len(details) |-> details[i].profit])
    IN  [revenue  |-> total_revenue,
         cost_som |-> SumRat([i \in 1..Len(details) |-> details[i].cost_som]),
         profit   |-> total_profit,
         margin   |-> Margin(total_profit, total_revenue)]

\* The rows of table 2: one per model of the summary, sorted by model, the
\* summed dollar cost converted with the rate.
SummaryRows(summary, rate) ==
    LET models == Sorted(DOMAIN summary)
    IN  [i \in 1..Len(models) |->
            LET row      == summary[models[i]]
                cost_som == RatMul(row.cost_usd, rate)
                profit   == RatSub(row.revenue, cost_som)
            IN  [model |-> models[i], quantity |-> row.quantity,
                 revenue |-> row.revenue, cost_som |-> cost_som,
                 profit |-> profit, margin |-> Margin(profit, row.revenue)]]

\* The two tables as sent: in two messages when their text is longer than
\* 4000 characters (380 and 335 characters of frame, 83 and 70 per row).
Tables(entries, details, summary, totals, rate) ==
    LET rows2 == SummaryRows(summary, rate)
        chars == 380 + 83 * Len(details) + 335 + 70 * Len(rows2)
    IN  [parts |-> IF chars > 4000 THEN 2 ELSE 1,
         rows1 |-> details,
         rows2 |-> rows2,
         total |-> [quantity |-> SumNat([i \in 1..Len(entries) |-> entries[i].quantity]),
                    revenue  |-> totals.revenue,
                    cost_som |-> totals.cost_som,
                    profit   |-> totals.profit,
                    margin   |-> totals.margin]]

(***************************************************************************)
(* /end_report                                                             *)
(***************************************************************************)
\* The models of the entries that are not in the base.
MissingModels(entries, b) ==
    {entries[i].model : i \in 1..Len(entries)} \ DOMAIN b

\* ', '.join(missing_models): the models of a set in the order the set
\* iterates, which Python leaves open (it follows the strings' hashes).
JoinOrders(set) ==
    {ms \in [1..Cardinality(set) -> set] : \A m \in set : \E i \in DOMAIN ms : ms[i] = m}

\* An end_report that gives the session up when models are missing.
EndMissing_abort(u, missing_models) ==
    /\ \E models \in JoinOrders(missing_models) :
            reply' = Reply("missing_models", <<>>, models, <<>>, NoTables)
    /\ user_data' = [user_data EXCEPT ![u].report_active = FALSE, ![u].entries = <<>>]
    /\ UNCHANGED <<base, rate_file, report_file>>

\* Models are missing: they are listed, and nothing else happens.
EndMissing(u, missing_models) ==
    \E models \in JoinOrders(missing_models) :
        OnlyReply(Reply("missing_models", <<>>, models, <<>>, NoTables))

\* A finalize that forgets to leave the report mode.
EndFinalize_stays_active(u, ts, b) ==
    LET entries == Entries(u)
        rate    == GetRate(rate_file)
        details == Details(entries, b, rate)
        summary == Summary(details)
        totals  == Totals(details)
    IN  /\ user_data' = [user_data EXCEPT ![u].entries = <<>>]
        /\ report_file' = <<[timestamp |-> ts, entries |-> entries, details |-> details,
                            summary |-> summary, totals |-> totals]>>
        /\ reply' = Reply("report_saved", <<>>, <<>>, <<>>,
                          Tables(entries, details, summary, totals, rate))
        /\ UNCHANGED <<base, rate_file>>

\* The report of the session's entries against base b: the tables are sent,
\* report_data is saved, the session leaves the report and is emptied.
EndFinalize(u, ts, b) ==
    LET entries == Entries(u)
        rate    == GetRate(rate_file)
        details == Details(entries, b, rate)
        summary == Summary(details)
        totals  == Totals(details)
        report_data == [timestamp |-> ts, entries |-> entries, details |-> details,
                        summary |-> summary, totals |-> totals]
    IN  /\ user_data' = [user_data EXCEPT ![u].report_active = FALSE,
                                          ![u].entries = <<>>]
        /\ report_file' = <<report_data>>
        /\ reply' = Reply("report_saved", <<>>, <<>>, <<>>,
                          Tables(entries, details, summary, totals, rate))
        /\ UNCHANGED <<base, rate_file>>

\* An end_report that reports on whatever it holds: a model that is not in
\* the base costs nothing.
cmd_end_report_unchecked(u, ts) ==
    LET entries == Entries(u)
        models  == {entries[i].model : i \in 1..Len(entries)}
        costs   == [m \in models \cup DOMAIN base |->
                        IF m \in DOMAIN base THEN base[m] ELSE RatInt(0)]
    IN  IF ~ReportActive(u) THEN OnlyReply(Simple("not_started"))
        ELSE IF entries = <<>> THEN OnlyReply(Simple("no_entries"))
        ELSE EndFinalize(u, ts, costs)

\* An end_report that closes a report it finds empty.
cmd_end_report_closing_empty(u, ts) ==
    LET entries == Entries(u)
        missing_models == MissingModels(entries, base)
    IN  IF ~ReportActive(u) THEN OnlyReply(Simple("not_started"))
        ELSE IF entries = <<>>
        THEN /\ reply' = Simple("no_entries")
             /\ user_data' = [user_data EXCEPT ![u].report_active = FALSE]
             /\ UNCHANGED <<base, rate_file, report_file>>
        ELSE IF missing_models # {} THEN EndMissing(u, missing_models)
        ELSE EndFinalize(u, ts, base)

cmd_end_report(u, ts) ==
    LET entries == Entries(u)
        missing_models == MissingModels(entries, base)
    IN  IF ~ReportActive(u) THEN OnlyReply(Simple("not_started"))
        ELSE IF entries = <<>> THEN OnlyReply(Simple("no_entries"))
        ELSE IF missing_models # {} THEN EndMissing(u, missing_models)
        ELSE EndFinalize(u, ts, base)

(***************************************************************************)
(* Free text                                                               *)
(***************************************************************************)
\* base[model] = price
Upsert(b, model, price) ==
    [m \in DOMAIN b \cup {model} |-> IF m = model THEN price ELSE b[m]]

\* The product a text adds to the base: ok where the text has the shape the
\* handler looks for (a ':' in it, '#' at its end, two parts around the ':')
\* and float() takes its second part as the price.
ProductOf(text) ==
    LET parts == Split(text, ":")
        price == PyFloat(Strip(parts[2]))
    IN  IF /\ Contains(text, ":") /\ EndsWith(text, "#")
           /\ Len(parts) = 2
           /\ price.ok
        THEN [ok |-> TRUE, model |-> Strip(parts[1]), price |-> price.val]
        ELSE [ok |-> FALSE, model |-> <<>>, price |-> RatInt(0)]

\* What the two parsers make of each text (computed once per text).
Products == [text \in AllTexts |-> ProductOf(text)]
Parsed   == [text \in AllTexts |-> parse_entry(text)]

\* The product is written to the base.
AddProduct(product) ==
    /\ base' = Upsert(base, product.model, product.price)
    /\ reply' = Reply("product_added", product.model, <<>>, <<product.price>>, NoTables)
    /\ UNCHANGED <<rate_file, report_file, user_data>>

\* An entry appended to one list that every user with a session shares.
AddEntry_for_all(u, entry) ==
    LET shown == Detail(entry, base, GetRate(rate_file))
    IN  /\ Len(user_data[u].entries) < MaxEntries
        /\ user_data' = [v \in Users |->
                            IF user_data[v].present
                            THEN [user_data[v] EXCEPT !.entries = Append(@, entry)]
                            ELSE user_data[v]]
        /\ reply' = Reply("entry_added", entry.model, <<>>,
                          <<shown.revenue, shown.cost_som, shown.profit, shown.margin>>,
                          NoTables)
        /\ UNCHANGED <<base, rate_file, report_file>>

\* An entry put in front of the list.
AddEntry_in_front(u, entry) ==
    LET shown == Detail(entry, base, GetRate(rate_file))
    IN  /\ Len(user_data[u].entries) < MaxEntries
        /\ user_data' = [user_data EXCEPT ![u].entries = <<entry>> \o @]
        /\ reply' = Reply("entry_added", entry.model, <<>>,
                          <<shown.revenue, shown.cost_som, shown.profit, shown.margin>>,
                          NoTables)
        /\ UNCHANGED <<base, rate_file, report_file>>

\* The entry is appended and its cost, profit and margin are shown.
AddEntry(u, entry) ==
    LET shown == Detail(entry, base, GetRate(rate_file))
    IN  /\ Len(user_data[u].entries) < MaxEntries
        /\ user_data' = [user_data EXCEPT ![u].entries = Append(@, entry)]
        /\ reply' = Reply("entry_added", entry.model, <<>>,
                          <<shown.revenue, shown.cost_som, shown.profit, shown.margin>>,
                          NoTables)
        /\ UNCHANGED <<base, rate_file, report_file>>

\* A handler that does not return after the model-not-found answer: the
\* entry is appended before the lookup of its cost fails.
handle_message_no_return(u, text) ==
    LET product == Products[text]
        parsed  == Parsed[text]
        entry   == [revenue |-> parsed.revenue, quantity |-> parsed.quantity,
                    model |-> parsed.model]
    IN  IF ~ReportActive(u) THEN OnlyReply(Simple("not_active"))
        ELSE IF product.ok THEN AddProduct(product)
        ELSE IF ~parsed.ok THEN OnlyReply(Simple("parse_error"))
        ELSE IF parsed.model \notin DOMAIN base
        THEN /\ Len(user_data[u].entries) < MaxEntries
             /\ user_data' = [user_data EXCEPT ![u].entries = Append(@, entry)]
             /\ reply' = Reply("model_not_found", parsed.model, <<>>, <<>>, NoTables)
             /\ UNCHANGED <<base, rate_file, report_file>>
        ELSE AddEntry(u, entry)

\* A handler that starts the list again after a line it cannot parse.
handle_message_reset_on_error(u, text) ==
    LET product == Products[text]
        parsed  == Parsed[text]
        entry   == [revenue |-> parsed.revenue, quantity |-> parsed.quantity,
                    model |-> parsed.model]
    IN  IF ~ReportActive(u) THEN OnlyReply(Simple("not_active"))
        ELSE IF product.ok THEN AddProduct(product)
        ELSE IF ~parsed.ok
        THEN /\ reply' = Simple("parse_error")
             /\ user_data' = [user_data EXCEPT ![u].entries = <<>>]
             /\ UNCHANGED <<base, rate_file, report_file>>
        ELSE IF parsed.model \notin DOMAIN base
        THEN OnlyReply(Reply("model_not_found", parsed.model, <<>>, <<>>, NoTables))
        ELSE AddEntry(u, entry)

\* A handler that looks for the session's keys, not for a report in progress.
handle_message_after_report(u, text) ==
    LET product == Products[text]
        parsed  == Parsed[text]
        entry   == [revenue |-> parsed.revenue, quantity |-> parsed.quantity,
                    model |-> parsed.model]
    IN  IF ~user_data[u].present THEN OnlyReply(Simple("not_active"))
        ELSE IF product.ok THEN AddProduct(product)
        ELSE IF ~parsed.ok THEN OnlyReply(Simple("parse_error"))
        ELSE IF parsed.model \notin DOMAIN base
        THEN OnlyReply(Reply("model_not_found", parsed.model, <<>>, <<>>, NoTables))
        ELSE AddEntry(u, entry)

handle_message(u, text) ==
    LET product == Products[text]
        parsed  == Parsed[text]
        entry   == [revenue |-> parsed.revenue, quantity |-> parsed.quantity,
                    model |-> parsed.model]
    IN  IF ~ReportActive(u) THEN OnlyReply(Simple("not_active"))
        ELSE IF product.ok THEN AddProduct(product)
        ELSE IF ~parsed.ok THEN OnlyReply(Simple("parse_error"))
        ELSE IF parsed.model \notin DOMAIN base
        THEN OnlyReply(Reply("model_not_found", parsed.model, <<>>, <<>>, NoTables))
        ELSE AddEntry(u, entry)

(***************************************************************************)
(* The bot: the handlers main() registers, one update handled at a time    *)
(***************************************************************************)
\* One update of user u is handled.
Handle(u) ==
    \/ start(u)
    \/ cmd_base(u)
    \/ \E args \in RateArgs : cmd_rate(u, args)
    \/ cmd_start_report(u)
    \/ \E ts \in Timestamps : cmd_end_report(u, ts)
    \/ \E text \in Texts : handle_message(u, text)

Next == \E u \in Users : Handle(u)

Spec == Init /\ [][Next]_vars

(***************************************************************************)
(* One session of the bot while base.json is also written from outside     *)
(***************************************************************************)
\* base.json is written by something other than the handlers (the bot reads
\* the file anew in every handler, and no handler of the bot can put a
\* product into it).
ExternalBaseWrite ==
    /\ \E b \in Bases : b # base /\ base' = b
    /\ UNCHANGED <<rate_file, report_file, user_data, reply>>

\* The user whose session is followed.
Operator == "u1"

NextExt == Handle(Operator) \/ ExternalBaseWrite

SpecExt == Init /\ [][NextExt]_vars

(***************************************************************************)
(* One user who starts reports, types sale lines and sets the rate         *)
(***************************************************************************)
NextInput ==
    \/ cmd_start_report(Operator)
    \/ \E text \in LineTexts \cup BlankTexts : handle_message(Operator, text)
    \/ \E args \in RateArgs \cup MoreRateArgs : cmd_rate(Operator, args)

SpecInput == Init /\ [][NextInput]_vars

(***************************************************************************)
(* Properties                                                              *)
(***************************************************************************)
\* The session of u is REPORT_ACTIVE.
Active(u) == user_data[u].present /\ user_data[u].report_active

\* The entry list of the session of u.
Collected(u) == user_data[u].entries

\* The models of a list of entries that base b does not hold.
Absent(entries, b) == {entries[i].model : i \in 1..Len(entries)} \ DOMAIN b

\* The sale entry a text stands for.
EntryOf(text) ==
    [revenue |-> Parsed[text].revenue, quantity |-> Parsed[text].quantity,
     model |-> Parsed[text].model]

\* The product definition  <model>#:<cost>  a text is: one ':', a model that
\* ends with '#' before it, a number that is not negative after it.
DefinedProduct(text) ==
    LET parts == Split(text, ":")
        cost  == PyFloat(parts[2])
    IN  IF Len(parts) = 2 /\ EndsWith(parts[1], "#") /\ cost.ok /\ cost.val.n >= 0
        THEN [ok |-> TRUE, model |-> parts[1], cost |-> cost.val]
        ELSE [ok |-> FALSE, model |-> <<>>, cost |-> RatInt(0)]

DefinedProducts == [text \in Texts |-> DefinedProduct(text)]

\* A step sends the tables of a report or writes the report snapshot.
ReportProduced ==
    \/ report_file' # report_file
    \/ /\ \E ts \in Timestamps : cmd_end_report(Operator, ts)
       /\ reply'.kind = "report_saved"

\* C1: a report is sent or saved only when every entry of the session names a
\* model that is in the base at that moment, and the saved report then holds
\* exactly the session's entries.
C1_ReportOnlyOfKnownModels ==
    [][ReportProduced =>
          /\ Absent(Collected(Operator), base) = {}
          /\ report_file' # <<>>
          /\ report_file'[1].entries = Collected(Operator)
          /\ Absent(report_file'[1].entries, base') = {}
          /\ \A i \in 1..Len(report_file'[1].details) :
                report_file'[1].details[i].model \in DOMAIN base
          /\ reply'.kind = "report_saved"]_vars

\* A report of two entries has just been sent and saved, while the base holds
\* the models of both.
C1_Witness ==
    /\ reply.kind = "report_saved"
    /\ report_file # <<>>
    /\ Len(report_file[1].entries) = 2
    /\ report_file[1].entries[1].model # report_file[1].entries[2].model
    /\ Absent(report_file[1].entries, base) = {}

\* C2 (as claimed): in a REPORT_ACTIVE session a message  <model>#:<cost>
\* sets the base's cost of that model to that cost and appends no entry.
C2_ProductLineSetsCost ==
    [][\A u \in Users, text \in Texts :
          (Active(u) /\ DefinedProducts[text].ok /\ handle_message(u, text)) =>
              /\ base' = Upsert(base, DefinedProducts[text].model, DefinedProducts[text].cost)
              /\ Collected(u)' = Collected(u)]_vars

\* C3 (as claimed): in a REPORT_ACTIVE session every message that parses as a
\* sale line appends its entry, whether or not its model is in the base.
C3_EverySaleLineAppends ==
    [][\A u \in Users, text \in Texts :
          (Active(u) /\ Parsed[text].ok /\ handle_message(u, text)) =>
              Collected(u)' = Append(Collected(u), EntryOf(text))]_vars

\* C3 (amended): in a REPORT_ACTIVE session a message that parses as a sale
\* line and whose model is in the base appends exactly its entry at the end
\* of the list, the earlier entries unchanged; one whose model is not in the
\* base is answered with model-not-found and appends nothing.
C3_KnownSaleLineAppends ==
    [][\A u \in Users, text \in Texts :
          (Active(u) /\ Parsed[text].ok /\ handle_message(u, text)) =>
              IF Parsed[text].model \in DOMAIN base
              THEN /\ Collected(u)' = Collected(u) \o <<EntryOf(text)>>
                   /\ reply'.kind = "entry_added"
              ELSE /\ Collected(u)' = Collected(u)
                   /\ reply'.kind = "model_not_found"]_vars

\* A second, different entry has just been appended to a session's list.
C3_Witness ==
    /\ reply.kind = "entry_added"
    /\ \E u \in Users :
          /\ Active(u)
          /\ Len(Collected(u)) = 2
          /\ Collected(u)[1] # Collected(u)[2]
          /\ Collected(u)[2].model = reply.model

\* C4: start_report leaves the session REPORT_ACTIVE with no entries, and
\* leaves the base, the rate and the report snapshot as they were.
C4_StartReportClears ==
    [][\A u \in Users :
          cmd_start_report(u) =>
              /\ Active(u)'
              /\ Collected(u)' = <<>>
              /\ UNCHANGED <<base, rate_file, report_file>>]_vars

\* A report has been started in a session after another report was saved.
C4_Witness ==
    /\ reply.kind = "report_started"
    /\ report_file # <<>>
    /\ \E u \in Users : Active(u) /\ Collected(u) = <<>>

\* C5: end_report in a REPORT_ACTIVE session with entries whose models are
\* all in the base saves the snapshot of those entries, ends the report and
\* empties the list; a session that is not REPORT_ACTIVE answers free text
\* with not-active, changes nothing, and becomes REPORT_ACTIVE only by
\* start_report.
C5_EndReportFinalizes ==
    [][/\ \A u \in Users, ts \in Timestamps :
             (/\ Active(u) /\ Collected(u) # <<>>
              /\ Absent(Collected(u), base) = {}
              /\ cmd_end_report(u, ts)) =>
                 /\ report_file' # <<>>
                 /\ report_file'[1].entries = Collected(u)
                 /\ ~Active(u)'
                 /\ Collected(u)' = <<>>
                 /\ reply'.kind = "report_saved"
       /\ \A u \in Users, text \in Texts :
             (~Active(u) /\ handle_message(u, text)) =>
                 (reply'.kind = "not_active" /\ user_data' = user_data)
       /\ \A u \in Users :
             (~Active(u) /\ Active(u)') => cmd_start_report(u)]_vars

\* A report of two entries has just been saved and its session is idle and
\* empty.
C5_Witness ==
    /\ reply.kind = "report_saved"
    /\ report_file # <<>>
    /\ Len(report_file[1].entries) = 2
    /\ \E u \in Users :
          user_data[u].present /\ ~Active(u) /\ Collected(u) = <<>>

\* C6: an end_report that finds a model of the entries missing from the base
\* leaves the session REPORT_ACTIVE and its entries as they were; end_report
\* over entries whose models are all in the base saves their report.
C6_MissingKeepsSession ==
    [][\A ts \in Timestamps :
          (Active(Operator) /\ Collected(Operator) # <<>> /\ cmd_end_report(Operator, ts)) =>
              IF Absent(Collected(Operator), base) # {}
              THEN /\ user_data' = user_data
                   /\ Active(Operator)'
                   /\ reply'.kind = "missing_models"
              ELSE /\ report_file' # <<>>
                   /\ report_file'[1].entries = Collected(Operator)]_vars

\* An end_report has failed for missing models, the session still holds its
\* two entries, and the base now has their models: the report can be ended.
C6_Witness ==
    /\ reply.kind = "missing_models"
    /\ Active(Operator)
    /\ Len(Collected(Operator)) = 2
    /\ Absent(Collected(Operator), base) = {}

\* C7 (as claimed): an end_report that finds models missing lists exactly
\* the distinct missing models in sorted order, sends no table and does not
\* touch the report snapshot.
C7_MissingListSorted ==
    [][\A ts \in Timestamps :
          (/\ Active(Operator) /\ Collected(Operator) # <<>>
           /\ Absent(Collected(Operator), base) # {}
           /\ cmd_end_report(Operator, ts)) =>
              /\ reply'.kind = "missing_models"
              /\ reply'.models = Sorted(Absent(Collected(Operator), base))
              /\ reply'.tables = NoTables
              /\ report_file' = report_file]_vars

\* C8: end_report in a session that is not REPORT_ACTIVE, or that has no
\* entries, only answers with an error: sessions, base, rate and snapshot
\* stay as they were.
C8_EndReportRefused ==
    [][\A u \in Users, ts \in Timestamps :
          ((~Active(u) \/ Collected(u) = <<>>) /\ cmd_end_report(u, ts)) =>
              /\ reply'.kind = (IF Active(u) THEN "no_entries" ELSE "not_started")
              /\ UNCHANGED <<user_data, base, rate_file, report_file>>]_vars

\* A REPORT_ACTIVE session without entries has just been refused its
\* end_report, next to a session that never started a report.
C8_Witness ==
    /\ reply.kind = "no_entries"
    /\ \E u \in Users : Active(u) /\ Collected(u) = <<>>
    /\ \E u \in Users : ~user_data[u].present

\* C9: in a REPORT_ACTIVE session a message that neither parser accepts only
\* gets the parse-error answer: sessions, base, rate and snapshot stay as
\* they were (so the session goes on collecting).
C9_ParseErrorChangesNothing ==
    [][\A u \in Users, text \in Texts :
          (/\ Active(u) /\ ~Products[text].ok /\ ~Parsed[text].ok
           /\ handle_message(u, text)) =>
              /\ reply'.kind = "parse_error"
              /\ UNCHANGED <<user_data, base, rate_file, report_file>>]_vars

\* A session that holds an entry has just been answered with a parse error.
C9_Witness ==
    /\ reply.kind = "parse_error"
    /\ \E u \in Users : Active(u) /\ Len(Collected(u)) >= 1

\* C10: free text of any shape in a session that is not REPORT_ACTIVE only
\* gets the not-active answer: no entry is appended, the base and the
\* sessions stay as they were.
C10_IdleTextRejected ==
    [][\A u \in Users, text \in Texts :
          (~Active(u) /\ handle_message(u, text)) =>
              /\ reply'.kind = "not_active"
              /\ reply'.model = <<>>
              /\ UNCHANGED <<user_data, base, rate_file, report_file>>]_vars

\* Free text has just been refused while no session is REPORT_ACTIVE and one
\* of them has ended a report before.
C10_Witness ==
    /\ reply.kind = "not_active"
    /\ \A u \in Users : ~Active(u)
    /\ \E u \in Users : user_data[u].present
    /\ report_file # <<>>

\* C11 (as claimed): every entry of every session's list, and every entry of
\* the saved report snapshot, has a quantity of at least 1.
C11_QuantityAtLeastOne ==
    /\ \A u \in Users : \A i \in 1..Len(Collected(u)) : Collected(u)[i].quantity >= 1
    /\ report_file # <<>> =>
          \A i \in 1..Len(report_file[1].entries) :
              report_file[1].entries[i].quantity >= 1

\* The sum of the revenues of a list of entries.
RECURSIVE RevenueOf(_)
RevenueOf(entries) ==
    IF entries = <<>> THEN RatInt(0)
    ELSE RatAdd(Head(entries).revenue, RevenueOf(Tail(entries)))

\* The sum over a list of entries of unit cost x rate x quantity, the unit
\* costs taken from base b.
RECURSIVE CostOf(_, _, _)
CostOf(entries, b, rate) ==
    IF entries = <<>> THEN RatInt(0)
    ELSE RatAdd(RatMul(b[Head(entries).model],
                       RatMul(rate, RatInt(Head(entries).quantity))),
                CostOf(Tail(entries), b, rate))

\* C12: the totals of a finalized report are: total revenue, the sum of the
\* entries' revenues; total cost, the sum of unit cost x rate x quantity
\* with the base and the rate of that moment; total profit, total revenue
\* minus total cost.  The totals sent in the table are the saved ones.
C12_TotalsAreSums ==
    [][\A ts \in Timestamps :
          (/\ Active(Operator) /\ Collected(Operator) # <<>>
           /\ Absent(Collected(Operator), base) = {}
           /\ cmd_end_report(Operator, ts)) =>
              LET totals  == report_file'[1].totals
                  revenue == RevenueOf(Collected(Operator))
                  cost    == CostOf(Collected(Operator), base, GetRate(rate_file))
              IN  /\ totals.revenue = revenue
                  /\ totals.cost_som = cost
                  /\ totals.profit = RatSub(revenue, cost)
                  /\ reply'.tables.total.revenue = revenue
                  /\ reply'.tables.total.cost_som = cost
                  /\ reply'.tables.total.profit = RatSub(revenue, cost)]_vars

\* A report of two different entries, one of them of two items, has been
\* saved with a loss as its total profit.
C12_Witness ==
    /\ reply.kind = "report_saved"
    /\ report_file # <<>>
    /\ Len(report_file[1].entries) = 2
    /\ report_file[1].entries[1] # report_file[1].entries[2]
    /\ \E i \in 1..2 : report_file[1].entries[i].quantity = 2
    /\ report_file[1].totals.profit.n < 0
    /\ report_file[1].totals.profit =
          RatSub(report_file[1].totals.revenue, report_file[1].totals.cost_som)

\* The sum of the quantities of a list of entries.
RECURSIVE QuantityOf(_)
QuantityOf(entries) ==
    IF entries = <<>> THEN 0 ELSE Head(entries).quantity + QuantityOf(Tail(entries))

\* The sums of the columns of a list of table rows.
RECURSIVE ColumnSums(_)
ColumnSums(rows) ==
    IF rows = <<>>
    THEN [quantity |-> 0, revenue |-> RatInt(0), cost_som |-> RatInt(0),
          profit |-> RatInt(0)]
    ELSE LET rest == ColumnSums(Tail(rows))
         IN  [quantity |-> Head(rows).quantity + rest.quantity,
              revenue  |-> RatAdd(Head(rows).revenue, rest.revenue),
              cost_som |-> RatAdd(Head(rows).cost_som, rest.cost_som),
              profit   |-> RatAdd(Head(rows).profit, rest.profit)]

\* C13: the per-model summary of a finalized report has exactly one row for
\* each distinct model of the entries, the rows in increasing order of the
\* model; a row's quantity, revenue and cost are the sums over that model's
\* entries, the cost in soms with the rate of that moment; and the rows'
\* quantities, revenues, costs and profits add up to the grand totals.
C13_SummaryPerModel ==
    [][\A ts \in Timestamps :
          (/\ Active(Operator) /\ Collected(Operator) # <<>>
           /\ Absent(Collected(Operator), base) = {}
           /\ cmd_end_report(Operator, ts)) =>
              LET entries == Collected(Operator)
                  models  == {entries[i].model : i \in 1..Len(entries)}
                  rows    == reply'.tables.rows2
                  total   == reply'.tables.total
                  sums    == ColumnSums(rows)
              IN  /\ Len(rows) = Cardinality(models)
                  /\ {rows[i].model : i \in 1..Len(rows)} = models
                  /\ DOMAIN report_file'[1].summary = models
                  /\ \A i, j \in 1..Len(rows) :
                        i < j => StrLess(rows[i].model, rows[j].model)
                  /\ \A i \in 1..Len(rows) :
                        LET mine == SelectSeq(entries, LAMBDA e : e.model = rows[i].model)
                            cost == CostOf(mine, base, GetRate(rate_file))
                        IN  /\ rows[i].quantity = QuantityOf(mine)
                            /\ rows[i].revenue = RevenueOf(mine)
                            /\ rows[i].cost_som = cost
                            /\ rows[i].profit = RatSub(RevenueOf(mine), cost)
                            /\ report_file'[1].summary[rows[i].model].quantity
                                  = QuantityOf(mine)
                            /\ report_file'[1].summary[rows[i].model].revenue
                                  = RevenueOf(mine)
                  /\ sums.quantity = total.quantity
                  /\ sums.revenue = total.revenue
                  /\ sums.cost_som = total.cost_som
                  /\ sums.profit = total.profit
                  /\ total.revenue = report_file'[1].totals.revenue
                  /\ total.cost_som = report_file'[1].totals.cost_som
                  /\ total.profit = report_file'[1].totals.profit]_vars

\* A report has been sent whose two entries are of one model: the summary
\* has one row, of the two entries' quantities and revenues together.
C13_Witness ==
    /\ reply.kind = "report_saved"
    /\ report_file # <<>>
    /\ Len(report_file[1].entries) = 2
    /\ Len(reply.tables.rows2) = 1
    /\ reply.tables.rows2[1].quantity =
          report_file[1].entries[1].quantity + report_file[1].entries[2].quantity
    /\ reply.tables.rows2[1].revenue =
          RatAdd(report_file[1].entries[1].revenue, report_file[1].entries[2].revenue)

\* The keys under which a snapshot could record the rate of its report.
RateKeys == {"rate", "rate_used", "exchange_rate"}

\* C14 (as claimed): a successful end_report leaves as the one saved
\* snapshot that of its report, which records the rate used and, in input
\* order, the entries the session held, whatever snapshot was saved before;
\* no other command changes the saved snapshot.
C14_SnapshotOfLastReport ==
    [][/\ \A u \in Users, ts \in Timestamps :
             (/\ Active(u) /\ Collected(u) # <<>>
              /\ Absent(Collected(u), base) = {}
              /\ cmd_end_report(u, ts)) =>
                 /\ Len(report_file') = 1
                 /\ report_file'[1].timestamp = ts
                 /\ report_file'[1].entries = Collected(u)
                 /\ \E key \in RateKeys \cap DOMAIN report_file'[1] :
                       report_file'[1][key] = GetRate(rate_file)
       /\ report_file' # report_file =>
             \E u \in Users, ts \in Timestamps :
                /\ Active(u) /\ Collected(u) # <<>>
                /\ Absent(Collected(u), base) = {}
                /\ cmd_end_report(u, ts)]_vars

\* C15: a step changes the base only if it handles a product-definition
\* message, and then it is no step of /start, /base, /rate, start_report,
\* end_report or of a message that is no product definition: those leave
\* the base as it was; and no step takes a model out of the base.
C15_BaseChangedOnlyByProductLines ==
    [][/\ \/ base' = base
          \/ /\ \E u \in Users, text \in Texts :
                   Active(u) /\ DefinedProducts[text].ok /\ handle_message(u, text)
             /\ \A u \in Users :
                   ~(\/ start(u)
                     \/ cmd_base(u)
                     \/ \E args \in RateArgs : cmd_rate(u, args)
                     \/ cmd_start_report(u)
                     \/ \E ts \in Timestamps : cmd_end_report(u, ts)
                     \/ \E text \in Texts :
                           ~DefinedProducts[text].ok /\ handle_message(u, text))
       /\ \A m \in DOMAIN base : m \in DOMAIN base']_vars

\* The rate has just been set while a report is saved, a session holds two
\* entries, and the base still holds both of its models.
C15_Witness ==
    /\ reply.kind = "rate_updated"
    /\ report_file # <<>>
    /\ \E u \in Users : Active(u) /\ Len(Collected(u)) = 2
    /\ base = FullBase

\* C16: a step that changes any session is one user's start_report, sale
\* line or end_report, and it leaves every other user's session as it was;
\* a session's list changes only by being emptied at that user's
\* start_report, by that user's sale line being appended, or by that user's
\* end_report, whose saved report then holds exactly that list.
C16_SessionsPerUser ==
    [][/\ report_file' # report_file => user_data' # user_data
       /\ \/ user_data' = user_data
          \/ \E u \in Users :
                /\ \A v \in Users \ {u} : user_data'[v] = user_data[v]
                /\ \/ /\ cmd_start_report(u)
                      /\ Active(u)' /\ Collected(u)' = <<>>
                      /\ report_file' = report_file
                   \/ /\ Active(u) /\ Active(u)'
                      /\ \E text \in Texts :
                            /\ Collected(u)' = Append(Collected(u), EntryOf(text))
                            /\ handle_message(u, text)
                      /\ report_file' = report_file
                   \/ /\ Active(u) /\ ~Active(u)'
                      /\ Collected(u)' = <<>>
                      /\ Len(report_file') = 1
                      /\ report_file'[1].entries = Collected(u)
                      /\ \E ts \in Timestamps : cmd_end_report(u, ts)]_vars

\* One user's report has just been saved and that session is idle and
\* empty, while the other user's session still holds its own two entries,
\* which are not those of the report.
C16_Witness ==
    /\ reply.kind = "report_saved"
    /\ report_file # <<>>
    /\ \E u, v \in Users :
          /\ u # v
          /\ ~Active(u) /\ Collected(u) = <<>>
          /\ Active(v) /\ Len(Collected(v)) = 2
          /\ report_file[1].entries # Collected(v)

\* C17 (as claimed): whichever users' handlers run in whatever order, no
\* update of the base or of the rate is lost: when the handling of a
\* product definition completes, the base holds its model at its cost next
\* to every other model at the cost it had (so that two completed upserts
\* of different models are both in the base), and the rate is as it was;
\* when a /rate with a number completes, the rate is that number and the
\* base is as it was.
C17_NoUpdateLost ==
    [][/\ \A u \in Users, text \in Texts :
             (Active(u) /\ DefinedProducts[text].ok /\ handle_message(u, text)) =>
                 LET model == DefinedProducts[text].model
                 IN  /\ model \in DOMAIN base'
                     /\ base'[model] = DefinedProducts[text].cost
                     /\ \A m \in DOMAIN base \ {model} :
                           m \in DOMAIN base' /\ base'[m] = base[m]
                     /\ rate_file' = rate_file
       /\ \A u \in Users, args \in RateArgs :
             (args # <<>> /\ PyFloat(args[1]).ok /\ cmd_rate(u, args)) =>
                 /\ rate_file' = <<PyFloat(args[1]).val>>
                 /\ base' = base]_vars

\* The arguments of /rate that write a number, with the number written.
NumberOf ==
    [arg \in { <<"2">>, <<"0">>, <<"-", "1">> } |->
        CASE arg = <<"2">> -> RatInt(2)
          [] arg = <<"0">> -> RatInt(0)
          [] arg = <<"-", "1">> -> RatInt(-1)]

\* C18 (as claimed): /rate with a number as its argument stores exactly
\* that number, zero and negative numbers too; /rate with an argument that
\* is no number answers with an error and leaves the stored rate as it
\* was; /rate without arguments changes nothing and shows the stored rate,
\* or 88 when none is stored.  Sessions, base and report snapshot are
\* unchanged in every case.
C18_RateCommand ==
    [][\A args \in RateArgs \cup MoreRateArgs :
          cmd_rate(Operator, args) =>
              /\ UNCHANGED <<user_data, base, report_file>>
              /\ IF args = <<>>
                 THEN /\ rate_file' = rate_file
                      /\ reply'.kind = "rate_shown"
                      /\ reply'.nums = <<IF rate_file = <<>> THEN RatInt(DefaultRate)
                                         ELSE rate_file[1]>>
                 ELSE IF args[1] \in DOMAIN NumberOf
                 THEN /\ rate_file' = <<NumberOf[args[1]]>>
                      /\ reply'.kind = "rate_updated"
                 ELSE /\ rate_file' = rate_file
                      /\ reply'.kind = "rate_error"]_vars

\* The integer a quantity token writes (1 for a line without the token).
QtyValue ==
    [qty \in {l.qty : l \in Lines} |->
        CASE qty = <<>> -> 1
          [] qty = <<"0">> -> 0
          [] qty = <<"1">> -> 1
          [] qty = <<"2">> -> 2
          [] qty = <<"0", "3">> -> 3
          [] qty = <<"1", "2">> -> 12]

\* C19: a sale line  <revenue> <qty> <model>#  is parsed with the quantity
\* its quantity token writes, a sale line  <revenue> <model>#  with the
\* quantity 1, in both cases with its model: the entry appended for it has
\* that quantity (where the model is not in the base, the model-not-found
\* answer names the model and nothing is appended).  A line that is empty
\* or only whitespace is a parse failure: the parse-error answer, no entry.
C19_ParsedQuantity ==
    [][/\ \A l \in Lines :
             (Active(Operator) /\ handle_message(Operator, LineOf(l))) =>
                 IF l.model \in DOMAIN base
                 THEN /\ Len(Collected(Operator)') = Len(Collected(Operator)) + 1
                      /\ Collected(Operator)'[Len(Collected(Operator)')].quantity
                            = QtyValue[l.qty]
                      /\ Collected(Operator)'[Len(Collected(Operator)')].model = l.model
                      /\ reply'.kind = "entry_added"
                 ELSE /\ Collected(Operator)' = Collected(Operator)
                      /\ reply'.kind = "model_not_found"
                      /\ reply'.model = l.model
       /\ \A text \in BlankTexts :
             (Active(Operator) /\ handle_message(Operator, text)) =>
                 /\ reply'.kind = "parse_error"
                 /\ user_data' = user_data]_vars

\* A session holds the entry of a line without a quantity token followed by
\* the entry of a line with the quantity token 12.
C19_Witness ==
    /\ reply.kind = "entry_added"
    /\ Active(Operator)
    /\ Len(Collected(Operator)) = 2
    /\ Collected(Operator)[1].quantity = 1
    /\ Collected(Operator)[2].quantity = 12

\* C20: in every state the bot's own handlers reach, each entry of each
\* session's list names a model that is in the base, and no end_report has
\* been answered with the list of missing models.
C20_EntriesNameKnownModels ==
    /\ \A u \in Users : Absent(Collected(u), base) = {}
    /\ reply.kind # "missing_models"

\* A sale line of a model that is not in the base has just been turned
\* away from a session that holds two entries.
C20_Witness ==
    /\ reply.kind = "model_not_found"
    /\ reply.model \notin DOMAIN base
    /\ \E u \in Users : Active(u) /\ Len(Collected(u)) = 2

=============================================================================
